---- MODULE Spec2Model ----
(***************************************************************************)
(* bun-logs: a batching logger.  The Facade (createLogger, src/index.ts)   *)
(* runs on the main thread; the Dispatcher (src/worker.ts) runs in a       *)
(* Worker.  They exchange messages over two FIFO channels.  Every action   *)
(* below is one JavaScript macrotask (a call from user code, a message     *)
(* handler, a timer callback, or the continuation of an awaited I/O        *)
(* operation) together with the microtasks it schedules.                   *)
(***************************************************************************)
EXTENDS Integers, Sequences, FiniteSets, TLC

\* ---- bounds of the model ----
MaxPosts == 2      \* calls of debug/info/warn/error in one behaviour
MaxFlushes == 2    \* calls of flush() in one behaviour, those made by close() included
MaxCloses == 1     \* calls of close() in one behaviour
MaxRecloses == 1   \* further calls of close() on a logger closed before
MaxBurst == 101    \* length of a synchronous burst of posts (DropSpec)
MaxDropped == 2    \* drops reported to the worker, waiting or folded into a warning

\* ---- option values the behaviours are drawn from ----
OptLevels == {"warn", "error"}
CallLevels == {"info", "error"}
\* <<batchSize, maxQueueSize>>: overlapping size-triggered drains, and a full
\* queue while the buffer is still below the batch size
Sizes == {<<1, 2>>, <<2, 1>>}
Destinations == {"stdout", "file"}
BurstQueueSizes == {0, 5}
\* <<batchSize, maxQueueSize>>: a buffer that fills up to the batch size
BatchSizes == {<<1, 2>>, <<2, 2>>}

\* ---- program constants ----
LEVEL == [debug |-> 10, info |-> 20, warn |-> 30, error |-> 40]
DefaultBatch == 64
DropReportEvery == 100
NoToken == 0

VARIABLES
  \* Facade (main thread)
  min,          \* LEVEL[opts.level]
  maxQueue,     \* opts.maxQueueSize
  queueSize,    \* the outstanding counter
  dropped,      \* the Facade's drop counter
  listeners,    \* tokens of flush() calls whose "message" listener is registered
  toWorker,     \* channel Facade -> Dispatcher (FIFO)
  toMain,       \* channel Dispatcher -> Facade (FIFO)
  terminated,   \* worker.terminate() has been called
  \* Dispatcher (worker)
  BATCH, DEST,  \* configuration fixed by the init message
  q,            \* the pending buffer
  timer,        \* the flush timer is armed
  fileHandle,   \* the cached FileSink
  wdropped,     \* the Dispatcher's drop counter (worker.ts: dropped)
  drains,       \* invocations of flushNow suspended at an await
  \* Sink
  out,          \* chunks whose write to the destination succeeded, in completion order
  errOut,       \* chunks written by the fallback to stderr
  \* observation of the run
  nposts,       \* number of post calls made
  lastPost,     \* level of the most recent post call
  naccepted,    \* number of entries accepted by post; entry ids are 1..naccepted
  calls,        \* calls[t]: what the Facade's state was when flush() made token t
  resolved,     \* tokens whose promise has been resolved
  errors,       \* the invocations of onError, in order
  failed,       \* ids of entries whose write failed
  reported,     \* ids of entries whose write failure onError has been invoked for
  exited,       \* the process has exited
  handles,      \* number of FileSinks created
  terminations  \* number of calls of worker.terminate()

facade == <<min, maxQueue, queueSize, dropped, listeners, terminated>>
worker == <<BATCH, DEST, q, timer, fileHandle, wdropped, drains>>
sink == <<out, errOut>>
observed == <<nposts, lastPost, naccepted, calls, resolved, errors, failed, reported,
              exited, handles, terminations>>
vars == <<facade, toWorker, toMain, worker, sink, observed>>

\* ---- messages ----
InitMsg(b, d) == [type |-> "init", batchSize |-> b, destination |-> d]
EntryMsg(id, lvl) == [type |-> "entry", id |-> id, level |-> lvl]
FlushMsg(t) == [type |-> "flush", token |-> t]
ProcessedMsg(n) == [type |-> "processed", n |-> n]
\* ids: the entries of the batch the error is about (not part of the message)
ErrorMsg(ids) == [type |-> "error", ids |-> ids]
FlushedMsg(t) == [type |-> "flushed", token |-> t]
DroppedMsg(n) == [type |-> "dropped", n |-> n]

Max(a, b) == IF a > b THEN a ELSE b

\* worker.postMessage: a terminated worker receives nothing
Send(m) == IF terminated THEN toWorker ELSE Append(toWorker, m)

\* the state createLogger leaves, for options drawn from the given sets
InitOf(levels, sizes, dests) ==
  /\ min \in {LEVEL[l] : l \in levels}
  /\ \E sz \in sizes, d \in dests :
       /\ maxQueue = sz[2]
       /\ toWorker = <<InitMsg(sz[1], d)>>
  /\ queueSize = 0
  /\ dropped = 0
  /\ listeners = {}
  /\ toMain = <<>>
  /\ terminated = FALSE
  /\ BATCH = DefaultBatch
  /\ DEST = "stdout"
  /\ q = <<>>
  /\ timer = FALSE
  /\ fileHandle = FALSE
  /\ wdropped = 0
  /\ drains = <<>>
  /\ out = <<>>
  /\ errOut = <<>>
  /\ nposts = 0
  /\ lastPost = "none"
  /\ naccepted = 0
  /\ calls = <<>>
  /\ resolved = {}
  /\ errors = <<>>
  /\ failed = {}
  /\ reported = {}
  /\ exited = FALSE
  /\ handles = 0
  /\ terminations = 0

Init == InitOf(OptLevels, Sizes, Destinations)

\* ---------------------------------------------------------------------------
\* Facade
\* ---------------------------------------------------------------------------

NeverBelowMin(lvl) == FALSE

\* post: if (LEVEL[lvl] < min) return;
BelowMin(lvl) == LEVEL[lvl] < min

QueueFullOffByOne == queueSize > maxQueue

\* post: if (queueSize >= maxQueue)
QueueFull == queueSize >= maxQueue

ReportsEveryHundredthOnly(n) == n % DropReportEvery = 0

\* post: if (dropped === 1 || dropped % 100 === 0), on the incremented counter
ReportsDrop(n) == n = 1 \/ n % DropReportEvery = 0

PostBody(lvl) ==
  /\ nposts' = nposts + 1
  /\ lastPost' = lvl
  /\ IF BelowMin(lvl)
       THEN UNCHANGED <<queueSize, dropped, errors, toWorker, naccepted>>
       ELSE IF QueueFull
         THEN /\ dropped' = dropped + 1
              /\ errors' = IF ReportsDrop(dropped + 1)
                             THEN Append(errors, [kind |-> "overflow", n |-> dropped + 1])
                             ELSE errors
              /\ UNCHANGED <<queueSize, toWorker, naccepted>>
         ELSE /\ queueSize' = queueSize + 1
              /\ naccepted' = naccepted + 1
              /\ toWorker' = Send(EntryMsg(naccepted + 1, lvl))
              /\ UNCHANGED <<dropped, errors>>
  /\ UNCHANGED <<min, maxQueue, listeners, terminated, toMain, worker, sink, calls,
                 resolved, failed, reported, exited, handles, terminations>>

Post(lvl) ==
  /\ nposts < MaxPosts
  /\ PostBody(lvl)

\* flush(): a fresh token, a listener for it, and a flush request
FlushBody(isClose) ==
  LET id == Len(calls) + 1 IN
  /\ listeners' = listeners \cup {id}
  /\ toWorker' = Send(FlushMsg(id))
  /\ calls' = Append(calls, [pre |-> naccepted, posts |-> nposts, dropped |-> dropped,
                             close |-> isClose])
  /\ UNCHANGED <<min, maxQueue, queueSize, dropped, terminated, toMain, worker, sink,
                 nposts, lastPost, naccepted, resolved, errors, failed, reported, exited,
                 handles, terminations>>

NumCloses == Cardinality({t \in 1..Len(calls) : calls[t].close})

Flush ==
  /\ Len(calls) < MaxFlushes
  /\ FlushBody(FALSE)

\* close(): await flush(); worker.terminate()  -- the first half
Close ==
  /\ Len(calls) < MaxFlushes
  /\ NumCloses < MaxCloses
  /\ FlushBody(TRUE)

MatchesAnyToken(t, m) == TRUE

\* the listener of flush(): if (e.data?.__flushed === id)
Matches(t, m) == m.token = t

\* worker.onmessage of the Facade together with the listeners of flush()
MainOnMessage ==
  /\ toMain # <<>>
  /\ LET m == Head(toMain) IN
     /\ toMain' = Tail(toMain)
     /\ queueSize' = IF m.type = "processed" THEN Max(0, queueSize - m.n) ELSE queueSize
     /\ errors' = IF m.type = "error" THEN Append(errors, [kind |-> "write", n |-> 0])
                                      ELSE errors
     /\ reported' = IF m.type = "error" THEN reported \cup m.ids ELSE reported
     /\ LET hit == IF m.type = "flushed" THEN {t \in listeners : Matches(t, m)} ELSE {}
            closing == {t \in hit : calls[t].close}
        IN /\ listeners' = listeners \ hit
           /\ resolved' = resolved \cup hit
           \* close() resumes after its flush(): worker.terminate()
           /\ terminated' = (terminated \/ closing # {})
           /\ terminations' = terminations + Cardinality(closing)
  /\ UNCHANGED <<min, maxQueue, dropped, toWorker, worker, sink, nposts, lastPost,
                 naccepted, calls, failed, exited, handles>>

\* ---------------------------------------------------------------------------
\* Dispatcher
\* ---------------------------------------------------------------------------

\* getWriter: the destinations written through a cached FileSink
UsesFileSink(dest) == dest \notin {"stdout", "stderr"}

NoAck(tok) == <<>>

\* self.onmessage, __flush branch: postMessage({ __flushed: d.__flush }) once
\* flushNow has returned; nothing for a drain no flush request started
Ack(tok) == IF tok = NoToken THEN <<>> ELSE <<FlushedMsg(tok)>>

KeepsBuffer(qq) == qq

\* flushNow: what q.splice(0, count) leaves in the buffer
Rest(qq) == <<>>

CountPlusOne(qq) == Len(qq) + 1

\* flushNow: const count = q.length, taken before the warning is prepended
Count(qq) == Len(qq)

KeepsDropped(n) == n

\* flushNow: if (dropped > 0) { const droppedCount = dropped; dropped = 0; ... }
ResetDropped(n) == 0

OpensEachTime(h, dest) == UsesFileSink(dest)

\* getWriter: if (fileHandle) return fileHandle; ... fileHandle = Bun.file(..).writer()
Opens(h, dest) == ~h /\ UsesFileSink(dest)

NeverEmpty(qq) == FALSE

\* flushNow: if (q.length === 0) return;
IsEmpty(qq) == Len(qq) = 0

LeavesTimer(t) == t

\* flushNow: if (timer) { clearTimeout(timer); timer = null; }
ClearTimer(t) == FALSE

\* flushNow up to its first real suspension (the awaited write), called with
\* buffer qq by a trigger that holds token tok (NoToken for size and timer).
FlushNow(qq, tok) ==
  /\ timer' = ClearTimer(timer)
  /\ IF IsEmpty(qq)
       THEN /\ q' = qq
            /\ toMain' = toMain \o Ack(tok)
            /\ UNCHANGED <<wdropped, drains, fileHandle, handles>>
       ELSE /\ q' = Rest(qq)
            /\ wdropped' = ResetDropped(wdropped)
            /\ drains' = Append(drains, [lines |-> qq, count |-> Count(qq),
                                         warn |-> wdropped, token |-> tok,
                                         stage |-> "write"])
            /\ fileHandle' = (fileHandle \/ UsesFileSink(DEST))
            /\ handles' = IF Opens(fileHandle, DEST) THEN handles + 1 ELSE handles
            /\ toMain' = toMain

BatchExceeded(n) == n > BATCH

\* self.onmessage, entry branch: if (q.length >= BATCH), after the push
ReachesBatch(n) == n >= BATCH

NeverArmed(t) == t

\* schedule(): if (timer) return; timer = setTimeout(...)
Schedule(t) == IF t THEN t ELSE TRUE

\* self.onmessage
WorkerOnMessage ==
  /\ ~terminated
  /\ toWorker # <<>>
  /\ LET d == Head(toWorker) IN
     /\ toWorker' = Tail(toWorker)
     /\ IF d.type = "init"
          THEN /\ BATCH' = d.batchSize
               /\ DEST' = d.destination
               /\ UNCHANGED <<q, timer, fileHandle, wdropped, drains, toMain, handles>>
          ELSE IF d.type = "flush"
            THEN /\ FlushNow(q, d.token)
                 /\ UNCHANGED <<BATCH, DEST>>
          ELSE IF d.type = "dropped"
            THEN /\ wdropped' = wdropped + d.n
                 /\ UNCHANGED <<BATCH, DEST, q, timer, fileHandle, drains, toMain, handles>>
          ELSE IF ReachesBatch(Len(q) + 1)
            THEN /\ FlushNow(Append(q, d), NoToken)
                 /\ UNCHANGED <<BATCH, DEST>>
            ELSE /\ q' = Append(q, d)
                 /\ timer' = Schedule(timer)
                 /\ UNCHANGED <<BATCH, DEST, fileHandle, wdropped, drains, toMain, handles>>
  /\ UNCHANGED <<facade, sink, nposts, lastPost, naccepted, calls, resolved, errors,
                 failed, reported, exited, terminations>>

\* the callback of schedule()
TimerFire ==
  /\ ~terminated
  /\ timer
  /\ IF Len(q) = 0
       THEN /\ timer' = FALSE
            /\ UNCHANGED <<q, fileHandle, wdropped, drains, toMain, handles>>
       ELSE FlushNow(q, NoToken)
  /\ UNCHANGED <<facade, toWorker, BATCH, DEST, sink, nposts, lastPost, naccepted, calls,
                 resolved, errors, failed, reported, exited, terminations>>

Remove(s, i) == SubSeq(s, 1, i - 1) \o SubSeq(s, i + 1, Len(s))

Ids(lines) == {lines[k].id : k \in 1..Len(lines)}

\* The writes a destination can complete next.  A FileSink is one stream: its
\* writes complete in the order writer.write() was called.  Bun.write() calls on
\* stdout/stderr are independent operations and complete in any order.
CanComplete(i) ==
  /\ drains[i].stage = "write"
  /\ UsesFileSink(DEST) => \A j \in 1..(i - 1) : drains[j].stage # "write"

FallsBackAlways(dest) == TRUE

\* flushNow, catch: if (DEST === "stdout")
FallsBack(dest) == dest = "stdout"

\* flushNow resumed after the awaited write: try { ... } catch (err) { ... }
WriteDone(i, ok) ==
  /\ ~terminated
  /\ i \in 1..Len(drains)
  /\ CanComplete(i)
  /\ LET d == drains[i] IN
     IF ok
       THEN /\ out' = Append(out, d)
            /\ toMain' = (toMain \o <<ProcessedMsg(d.count)>>) \o Ack(d.token)
            /\ drains' = Remove(drains, i)
            /\ UNCHANGED <<failed>>
       ELSE /\ failed' = failed \cup Ids(d.lines)
            /\ out' = out
            /\ IF FallsBack(DEST)
                 THEN /\ toMain' = Append(toMain, ErrorMsg(Ids(d.lines)))
                      /\ drains' = [drains EXCEPT ![i].stage = "fallback"]
                 ELSE /\ toMain' = Append(toMain, ErrorMsg(Ids(d.lines))) \o Ack(d.token)
                      /\ drains' = Remove(drains, i)
  /\ UNCHANGED <<facade, toWorker, BATCH, DEST, q, timer, fileHandle, wdropped, errOut,
                 nposts, lastPost, naccepted, calls, resolved, errors, reported, exited,
                 handles, terminations>>

\* flushNow resumed after the fallback write: try { await Bun.write(Bun.stderr, chunk) } catch {}
FallbackDone(i, ok) ==
  /\ ~terminated
  /\ i \in 1..Len(drains)
  /\ drains[i].stage = "fallback"
  /\ errOut' = IF ok THEN Append(errOut, drains[i]) ELSE errOut
  /\ toMain' = toMain \o Ack(drains[i].token)
  /\ drains' = Remove(drains, i)
  /\ UNCHANGED <<facade, toWorker, BATCH, DEST, q, timer, fileHandle, wdropped, out,
                 observed>>

Next ==
  \/ \E lvl \in CallLevels : Post(lvl)
  \/ Flush
  \/ Close
  \/ MainOnMessage
  \/ WorkerOnMessage
  \/ TimerFire
  \/ \E i \in 1..Len(drains), ok \in BOOLEAN : WriteDone(i, ok)
  \/ \E i \in 1..Len(drains), ok \in BOOLEAN : FallbackDone(i, ok)

Spec == Init /\ [][Next]_vars

\* a synchronous run of post calls on the main thread: no message handler of the
\* Facade can run between two of them (the loop of worker.ts:231-233)
BurstPost(lvl) ==
  /\ nposts < MaxBurst
  /\ PostBody(lvl)

InitDrop ==
  /\ min \in {LEVEL[l] : l \in OptLevels}
  /\ maxQueue \in BurstQueueSizes
  /\ toWorker = <<InitMsg(DefaultBatch, "stdout")>>
  /\ queueSize = 0 /\ dropped = 0 /\ listeners = {} /\ toMain = <<>>
  /\ terminated = FALSE /\ BATCH = DefaultBatch /\ DEST = "stdout" /\ q = <<>>
  /\ timer = FALSE /\ fileHandle = FALSE /\ wdropped = 0 /\ drains = <<>>
  /\ out = <<>> /\ errOut = <<>> /\ nposts = 0 /\ lastPost = "none"
  /\ naccepted = 0 /\ calls = <<>> /\ resolved = {} /\ errors = <<>>
  /\ failed = {} /\ reported = {} /\ exited = FALSE /\ handles = 0 /\ terminations = 0

DropNext == \E lvl \in CallLevels : BurstPost(lvl)

DropSpec == InitDrop /\ [][DropNext]_vars

\* the scheduling the runtime guarantees: a queued message is eventually
\* handled, an awaited write eventually settles
Fairness ==
  /\ WF_vars(MainOnMessage)
  /\ WF_vars(WorkerOnMessage)
  /\ WF_vars(\E i \in 1..Len(drains), ok \in BOOLEAN : WriteDone(i, ok))
  /\ WF_vars(\E i \in 1..Len(drains), ok \in BOOLEAN : FallbackDone(i, ok))

\* the logger while nobody closes it
LiveNext ==
  \/ \E lvl \in CallLevels : Post(lvl)
  \/ Flush
  \/ MainOnMessage
  \/ WorkerOnMessage
  \/ TimerFire
  \/ \E i \in 1..Len(drains), ok \in BOOLEAN : WriteDone(i, ok)
  \/ \E i \in 1..Len(drains), ok \in BOOLEAN : FallbackDone(i, ok)

InitLive == Init /\ min = LEVEL["error"]

LiveSpec == InitLive /\ [][LiveNext]_vars /\ Fairness

\* the same logger with room in the queue for a whole batch
InitBatch == InitOf({"error"}, BatchSizes, Destinations)

BatchSpec == InitBatch /\ [][LiveNext]_vars

\* close() called again on a logger that has been closed before
CloseAgain ==
  /\ NumCloses \in 1..MaxRecloses
  /\ FlushBody(TRUE)

RecloseNext ==
  \/ Next
  \/ CloseAgain

RecloseSpec == Init /\ [][RecloseNext]_vars

\* SIGINT or SIGTERM reaches the process: createLogger registers no handler for
\* either, so the default disposition applies and the process exits at once
Signal ==
  /\ ~exited
  /\ exited' = TRUE
  /\ UNCHANGED <<facade, toWorker, toMain, worker, sink, nposts, lastPost, naccepted,
                 calls, resolved, errors, failed, reported, handles, terminations>>

\* a process that has exited takes no further step
SignalNext ==
  \/ ~exited /\ Next
  \/ Signal

SignalSpec == Init /\ [][SignalNext]_vars

\* the drops waiting in the channel as { __dropped: n } messages
RECURSIVE PendingDropped(_)
PendingDropped(ch) ==
  IF ch = <<>> THEN 0
  ELSE (IF Head(ch).type = "dropped" THEN Head(ch).n ELSE 0) + PendingDropped(Tail(ch))

\* the drops the warnings of the given batches carry
RECURSIVE SumWarn(_)
SumWarn(bs) == IF bs = <<>> THEN 0 ELSE Head(bs).warn + SumWarn(Tail(bs))

\* the drops folded into the warnings of the batches detached so far
Warned == SumWarn(drains) + SumWarn(out) + SumWarn(errOut)

\* a { __dropped: n } message is posted to the worker
DropReport ==
  /\ \E n \in 1..MaxDropped :
       /\ PendingDropped(toWorker) + wdropped + Warned + n <= MaxDropped
       /\ toWorker' = Send(DroppedMsg(n))
  /\ UNCHANGED <<facade, toMain, worker, sink, observed>>

\* the Dispatcher driven by entries, flush requests and drop reports; with a
\* file destination the catch branch of flushNow makes no fallback write
ReportNext ==
  \/ \E lvl \in CallLevels : Post(lvl)
  \/ Flush
  \/ DropReport
  \/ MainOnMessage
  \/ WorkerOnMessage
  \/ TimerFire
  \/ \E i \in 1..Len(drains), ok \in BOOLEAN : WriteDone(i, ok)

\* one configuration in which the buffer fills, the timer fires and drains overlap
InitReport == InitOf({"error"}, {<<2, 2>>}, {"file"})

ReportSpec == InitReport /\ [][ReportNext]_vars

\* the logger with close(), under the scheduling the runtime guarantees
ClosingSpec == InitLive /\ [][Next]_vars /\ Fairness /\ WF_vars(TimerFire)

\* setTimeout callbacks run once their interval has elapsed
TimerSpec == LiveSpec /\ WF_vars(TimerFire)

\* ---------------------------------------------------------------------------
\* Properties
\* ---------------------------------------------------------------------------

Tokens == 1..MaxFlushes
WrittenIds == UNION {Ids(out[k].lines) : k \in 1..Len(out)}
\* entries whose write has completed, successfully or not
CompletedIds == WrittenIds \cup failed
AcceptedBefore(t) == 1..calls[t].pre

\* C1: a flush() promise is resolved only when every entry accepted before the
\* call is in a chunk whose write has completed.
C1_FlushAfterWrites ==
  \A t \in resolved : AcceptedBefore(t) \subseteq CompletedIds

\* C2: the entries of the written chunks, in write order, are in the order in
\* which the Facade accepted them.
C2_OrderPreserved ==
  /\ \A k \in 1..Len(out) : \A a, b \in 1..Len(out[k].lines) :
       a < b => out[k].lines[a].id < out[k].lines[b].id
  /\ \A k, l \in 1..Len(out) :
       k < l => \A a \in Ids(out[k].lines), b \in Ids(out[l].lines) : a < b

\* C3: the worker is terminated only when no drain is awaiting its write, and
\* when close() has resolved every entry accepted before the close() call has
\* been written or has failed with an error report.
C3_CloseWaitsForDrains ==
  /\ terminated => drains = <<>>
  /\ \A t \in resolved : calls[t].close => AcceptedBefore(t) \subseteq CompletedIds

\* C4: a post at or above the minimum level made while outstanding >=
\* maxQueueSize leaves outstanding and the channel unchanged and adds exactly
\* one to the drop counter.
C4_RejectWhenFull ==
  [][(nposts' = nposts + 1 /\ LEVEL[lastPost'] >= min /\ queueSize >= maxQueue)
       => (queueSize' = queueSize /\ toWorker' = toWorker /\ dropped' = dropped + 1)]_vars

C4_Witness == dropped > 0 /\ queueSize = maxQueue /\ naccepted > 0

C6_DropWarningWritten ==
  \A k \in 1..Len(out) :
    (out[k].token # NoToken /\ calls[out[k].token].dropped > 0)
      => out[k].warn = calls[out[k].token].dropped

\* C7: entries of a batch whose write failed are counted as processed, so once
\* every message has been handled and no drain is in flight outstanding is 0.
C7_FailedBatchProcessed ==
  (~terminated /\ toWorker = <<>> /\ toMain = <<>> /\ q = <<>> /\ drains = <<>>)
    => queueSize = 0

\* the entries that have left the Facade
Forwarded ==
  {toWorker[k] : k \in {j \in 1..Len(toWorker) : toWorker[j].type = "entry"}}
    \cup {q[k] : k \in 1..Len(q)}
    \cup UNION {{drains[k].lines[j] : j \in 1..Len(drains[k].lines)} : k \in 1..Len(drains)}
    \cup UNION {{out[k].lines[j] : j \in 1..Len(out[k].lines)} : k \in 1..Len(out)}
    \cup UNION {{errOut[k].lines[j] : j \in 1..Len(errOut[k].lines)} : k \in 1..Len(errOut)}

\* C8: an entry below the configured minimum level is never sent to the
\* Dispatcher and never appears in a written chunk.
C8_BelowMinNeverForwarded ==
  /\ \A e \in Forwarded : LEVEL[e.level] >= min
  /\ [][(nposts' = nposts + 1 /\ LEVEL[lastPost'] < min) => toWorker' = toWorker]_vars

C8_Witness ==
  /\ nposts > naccepted + dropped
  /\ out # <<>>

\* C9: every flush() issued while the Dispatcher is alive is eventually
\* resolved, unless the Dispatcher is terminated first.
C9_FlushResolves ==
  \A t \in Tokens : (t \in listeners) ~> (t \in resolved \/ terminated)

C9_Witness ==
  \E t \in resolved : AcceptedBefore(t) \cap failed # {} /\ nposts > calls[t].posts

\* C10: a flush() call is resolved only by the acknowledgement that carries its
\* own token, and each of several calls outstanding at once is eventually
\* resolved (unless the Dispatcher is terminated first).
C10_OwnTokenResolves ==
  /\ [][\A t \in resolved' \ resolved :
          toMain # <<>> /\ Head(toMain) = FlushedMsg(t)]_vars
  /\ \A t \in Tokens :
       (t \in listeners /\ Cardinality(listeners) >= 2) ~> (t \in resolved \/ terminated)

C10_Witness ==
  \E t \in resolved, u \in listeners : u < t

\* C11: when a flush() promise is resolved, onError has been invoked for every
\* failed write of a batch holding an entry accepted before the call.
C11_ErrorBeforeFlushResolves ==
  \A t \in resolved : (AcceptedBefore(t) \cap failed) \subseteq reported

\* the Dispatcher takes an entry message in this step
HandlesEntry ==
  /\ toWorker # <<>>
  /\ Head(toWorker).type = "entry"
  /\ toWorker' = Tail(toWorker)

\* C12: the buffer is always strictly below batchSize between the Dispatcher's
\* steps, and the step that appends the entry which makes the buffer reach
\* batchSize starts a drain of the whole buffer itself.
C12_SizeTriggerImmediate ==
  /\ [](Len(q) < BATCH)
  /\ [][(HandlesEntry /\ Len(q) + 1 >= BATCH)
          => (/\ Len(drains') = Len(drains) + 1
              /\ drains'[Len(drains')].lines = Append(q, Head(toWorker))
              /\ drains'[Len(drains')].token = NoToken
              /\ q' = <<>>)]_vars

C12_Witness ==
  /\ q = <<>>
  /\ ~timer
  /\ BATCH = 2
  /\ \E k \in 1..Len(drains) :
       drains[k].token = NoToken /\ Len(drains[k].lines) = BATCH /\ drains[k].stage = "write"

\* C13: while the worker is not terminated, an entry sitting in the buffer is
\* eventually detached and its chunk's write completes, even when no flush()
\* call and no further entry arrives: the timer armed by schedule() drains it.
C13_TimerDrains ==
  \A id \in 1..MaxPosts :
    (id \in Ids(q)) ~> (id \in CompletedIds \/ terminated)

\* a chunk smaller than the batch size, detached by the timer, has been written
C13_Witness ==
  \E k \in 1..Len(out) :
    /\ out[k].token = NoToken
    /\ out[k].count < BATCH
    /\ resolved = {}
    /\ calls = <<>>

Closed == \E t \in resolved : calls[t].close

\* C14: once close() has completed, a post changes neither the outstanding
\* counter nor the drop counter, sends nothing, writes nothing and reports no
\* queue-overflow drop.
C14_PostAfterCloseNoEffect ==
  [][(Closed /\ nposts' = nposts + 1)
       => (/\ queueSize' = queueSize
           /\ dropped' = dropped
           /\ toWorker' = toWorker
           /\ out' = out
           /\ errors' = errors)]_vars

\* C15: however often close() is called, worker.terminate() runs at most once.
C15_TerminatesOnce == terminations <= 1

\* C16: the process exits on SIGINT/SIGTERM only after close() has run: the
\* buffered entries are flushed and the worker is terminated.
C16_SignalRunsClose ==
  exited => (Closed /\ terminated /\ q = <<>>)

\* C17: 0 <= outstanding <= maxQueueSize in every reachable state; the counter
\* grows only by one, in an accepted post made while it is below maxQueueSize,
\* and shrinks only when a processed report is handled, clamped at zero.
C17_OutstandingBounded ==
  /\ [](queueSize \in 0..maxQueue)
  /\ [][/\ queueSize' > queueSize
            => (/\ queueSize < maxQueue
                /\ queueSize' = queueSize + 1
                /\ naccepted' = naccepted + 1)
        /\ queueSize' < queueSize
            => (/\ toMain # <<>>
                /\ Head(toMain).type = "processed"
                /\ queueSize' = Max(0, queueSize - Head(toMain).n))]_vars

\* the counter is back at its bound after a processed report had lowered it
C17_Witness ==
  /\ queueSize = maxQueue
  /\ naccepted > maxQueue
  /\ out # <<>>

\* C18: at most one drain at a time is between detaching its batch and the
\* completion of its write.
C18_OneDrainAtATime ==
  Cardinality({k \in 1..Len(drains) : drains[k].stage = "write"}) <= 1

\* the batches detached so far: awaiting their write, written, or failed
BatchIds(k) == Ids(drains[k].lines)
Batched == UNION {BatchIds(k) : k \in 1..Len(drains)} \cup WrittenIds \cup failed

\* C19: a drain takes the whole buffer in the step that starts it and leaves
\* the buffer empty; no entry is in two batches or in a batch and the buffer,
\* and an entry once buffered stays in the buffer or in a batch.
C19_AtomicDetach ==
  /\ [](/\ Ids(q) \cap Batched = {}
        /\ \A k, l \in 1..Len(drains) : k # l => BatchIds(k) \cap BatchIds(l) = {}
        /\ \A k \in 1..Len(drains) :
             drains[k].stage = "write" => BatchIds(k) \cap (WrittenIds \cup failed) = {}
        /\ \A k, l \in 1..Len(out) :
             k # l => Ids(out[k].lines) \cap Ids(out[l].lines) = {}
        /\ WrittenIds \cap failed = {})
  /\ [][/\ (Ids(q) \cup Batched) \subseteq (Ids(q') \cup Batched')
        /\ Len(drains') = Len(drains) + 1
            => (/\ q' = <<>>
                /\ Ids(q) \subseteq Ids(drains'[Len(drains')].lines)
                /\ drains'[Len(drains')].lines # <<>>)]_vars

\* an entry has arrived while a drain is in progress and waits in the buffer
C19_Witness ==
  /\ Len(drains) = 1
  /\ drains[1].stage = "write"
  /\ q # <<>>

RECURSIVE SumCounts(_)
SumCounts(s) == IF s = <<>> THEN 0 ELSE Head(s).count + SumCounts(Tail(s))

DroppedIn ==
  IF toWorker # <<>> /\ Head(toWorker).type = "dropped" /\ toWorker' = Tail(toWorker)
    THEN Head(toWorker).n
    ELSE 0

\* C21: the step that detaches a batch puts the whole accumulated drop count
\* into that batch's warning and resets the counter; the drops waiting in the
\* counter plus those carried by warnings grow only by the reports received,
\* so no drop is reported by the warnings of two batches.
C21_WarningOncePerWindow ==
  [][/\ Len(drains') = Len(drains) + 1
        => (/\ drains'[Len(drains')].warn = wdropped
            /\ wdropped' = 0)
     /\ Warned' + wdropped' <= Warned + wdropped + DroppedIn]_vars

\* two drains overlap; the first carries the warning, the second carries none
C21_Witness ==
  /\ Len(drains) = 2
  /\ drains[1].warn > 0
  /\ drains[2].warn = 0
  /\ wdropped = 0

RECURSIVE NumErrors(_)
NumErrors(ch) ==
  IF ch = <<>> THEN 0
  ELSE (IF Head(ch).type = "error" THEN 1 ELSE 0) + NumErrors(Tail(ch))

WritingIds == UNION {Ids(drains[k].lines) : k \in {j \in 1..Len(drains) : drains[j].stage = "write"}}
NumWriting == Cardinality({k \in 1..Len(drains) : drains[k].stage = "write"})
NumFallback == Cardinality({k \in 1..Len(drains) : drains[k].stage = "fallback"})

\* C22: the step in which a write fails sends exactly one error report and,
\* only for destination stdout, starts one fallback write to stderr; the failed
\* batch never returns to the buffer, is never written to the destination
\* afterwards, and is written to stderr at most once.
C22_FailureHandledOnce ==
  /\ [](/\ failed \cap (Ids(q) \cup WritingIds \cup WrittenIds) = {}
        /\ (NumFallback > 0 \/ errOut # <<>>) => DEST = "stdout"
        /\ \A k \in 1..Len(errOut) : Ids(errOut[k].lines) \subseteq failed
        /\ \A k, l \in 1..Len(errOut) :
             k # l => Ids(errOut[k].lines) \cap Ids(errOut[l].lines) = {}
        /\ \A k \in 1..Len(drains), l \in 1..Len(errOut) :
             Ids(drains[k].lines) \cap Ids(errOut[l].lines) = {})
  /\ [][/\ failed' # failed
            => (/\ NumErrors(toMain') = NumErrors(toMain) + 1
                /\ NumWriting' = NumWriting - 1
                /\ NumFallback' = NumFallback + (IF DEST = "stdout" THEN 1 ELSE 0)
                /\ q' = q
                /\ out' = out)
        /\ failed' = failed => NumErrors(toMain') <= NumErrors(toMain)
        /\ NumFallback' <= NumFallback + 1
        /\ NumFallback' > NumFallback => failed' # failed]_vars

\* a failed batch has been written to stderr and its error report delivered
C22_Witness ==
  /\ errOut # <<>>
  /\ Ids(errOut[1].lines) \subseteq reported
  /\ drains = <<>>

\* C23: whenever the timer is armed the buffer is non-empty; the step that
\* detaches a batch leaves the timer unarmed, and the timer becomes armed only
\* in a step that handles an entry.
C23_TimerOnlyWithEntries ==
  /\ [](timer => q # <<>>)
  /\ [][/\ Len(drains') = Len(drains) + 1 => ~timer'
        /\ (~timer /\ timer') => (HandlesEntry /\ q' # <<>>)]_vars

\* a flush request has detached the buffered entry and cancelled its timer
C23_Witness ==
  /\ ~timer
  /\ q = <<>>
  /\ \E k \in 1..Len(drains) :
       drains[k].token # NoToken /\ drains[k].count < BATCH /\ drains[k].stage = "write"

\* C29: between events a non-empty buffer has its flush timer armed, also
\* when its entries arrived while a drain was in progress.
C29_BufferedImpliesTimer == q # <<>> => timer

\* an entry that arrived during a drain waits in the buffer with the timer armed
C29_Witness ==
  /\ q # <<>>
  /\ timer
  /\ \E k \in 1..Len(drains) : drains[k].stage = "write"

HandlesFlush ==
  /\ toWorker # <<>>
  /\ Head(toWorker).type = "flush"
  /\ toWorker' = Tail(toWorker)

\* C24: a flush request handled on an empty buffer starts no drain, writes
\* nothing, sends no processed and no error report, leaves the Dispatcher's
\* drop counter as it is, and acknowledges its token at once.
C24_EmptyDrainNoOp ==
  [][(HandlesFlush /\ q = <<>>)
       => (/\ drains' = drains
           /\ out' = out
           /\ errOut' = errOut
           /\ q' = <<>>
           /\ wdropped' = wdropped
           /\ toMain' = Append(toMain, FlushedMsg(Head(toWorker).token)))]_vars

\* a flush on an empty buffer has been acknowledged while drops are waiting
C24_Witness ==
  /\ wdropped > 0
  /\ naccepted = 0
  /\ toMain # <<>>
  /\ Head(toMain).type = "flushed"

\* C25: a post below the minimum level leaves outstanding, the Facade's drop
\* counter and the channel unchanged and calls onError not at all, also when
\* outstanding >= maxQueueSize.
C25_FilteredPostNoEffect ==
  [][(nposts' = nposts + 1 /\ LEVEL[lastPost'] < min)
       => (/\ queueSize' = queueSize
           /\ dropped' = dropped
           /\ toWorker' = toWorker
           /\ naccepted' = naccepted
           /\ errors' = errors)]_vars

\* the last post was below the minimum and found the queue full: no drop counted
C25_Witness ==
  /\ lastPost = "info"
  /\ queueSize = maxQueue
  /\ dropped = 0
  /\ nposts = naccepted + 1

\* C26: every flush() or close() call is eventually resolved, also a call
\* made after an earlier close() has terminated the worker.
C26_CallsComplete ==
  \A t \in Tokens : (t \in listeners) ~> (t \in resolved)

\* C27: for a file destination the Dispatcher creates at most one handle,
\* which every later drain reuses, also when drains overlap; for stdout it
\* creates none.
C27_HandleOpenedOnce ==
  /\ handles <= 1
  /\ fileHandle <=> handles = 1
  /\ ~UsesFileSink(DEST) => handles = 0

\* two overlapping drains on a file destination share the one handle
C27_Witness ==
  /\ UsesFileSink(DEST)
  /\ handles = 1
  /\ Len(drains) = 2

RECURSIVE NumEntries(_)
NumEntries(ch) ==
  IF ch = <<>> THEN 0
  ELSE (IF Head(ch).type = "entry" THEN 1 ELSE 0) + NumEntries(Tail(ch))

RECURSIVE SumProcessed(_)
SumProcessed(ch) ==
  IF ch = <<>> THEN 0
  ELSE (IF Head(ch).type = "processed" THEN Head(ch).n ELSE 0) + SumProcessed(Tail(ch))

RECURSIVE SumLines(_)
SumLines(bs) == IF bs = <<>> THEN 0 ELSE Len(Head(bs).lines) + SumLines(Tail(bs))

\* C28: while no write has failed and the worker is not terminated,
\* outstanding is the number of accepted entries not yet covered by a
\* delivered processed report: those in the channel, in the buffer, in a
\* drain in flight, or covered by a report still on its way. A delivered
\* report never exceeds outstanding, and outstanding is 0 once nothing is left.
C28_OutstandingIsInFlight ==
  (failed = {} /\ ~terminated)
    => /\ queueSize = NumEntries(toWorker) + Len(q) + SumLines(drains) + SumProcessed(toMain)
       /\ queueSize = naccepted - (SumCounts(out) - SumProcessed(toMain))
       /\ (toMain # <<>> /\ Head(toMain).type = "processed") => Head(toMain).n <= queueSize
       /\ (toWorker = <<>> /\ q = <<>> /\ drains = <<>> /\ toMain = <<>>) => queueSize = 0

\* everything accepted has been written and reported: outstanding is back at 0
C28_Witness ==
  /\ failed = {}
  /\ ~terminated
  /\ naccepted >= 2
  /\ SumCounts(out) = naccepted
  /\ toMain = <<>>
  /\ queueSize = 0

\* C30: when a flush() has resolved, no post was made after the call and no
\* write has failed, every processed report for the entries accepted before
\* the call has been delivered: outstanding is 0.
C30_ResolvedMeansDrained ==
  \A t \in resolved :
    (nposts = calls[t].posts /\ failed = {}) => queueSize = 0

====
